---- MODULE Spec2Model ----
(***************************************************************************)
(* Model of deepvariant/vcf_stats.py: per-variant statistics, summary      *)
(* statistics, VAF histograms by genotype, and the writing of a report.    *)
(*                                                                         *)
(* Representation:                                                         *)
(*   - an allele (reference_bases, one alternate) is a tuple of bases;     *)
(*   - a Python str built by the code (the genotype) is a tuple of         *)
(*     one-character strings, compared by code point;                      *)
(*   - None is <<>> and a present value v is <<v>> (field vaf);            *)
(*   - a VAF is an exact number of hundredths (RangeHi is 1.0);            *)
(*   - a Python dict that is iterated is a tuple of [key, value] pairs in  *)
(*     insertion order; a dict that is only looked up is a function;       *)
(*   - the text produced by json.dumps is represented by the structure it  *)
(*     encodes;                                                            *)
(*   - a mean is the fraction [num, den]; a standard deviation is          *)
(*     represented by its square, the population variance, as a fraction.  *)
(***************************************************************************)
EXTENDS Integers, Sequences, FiniteSets, TLC

VARIABLES
  variants,          \* argument of variants_to_stats_json: the input records
  vcf_reader,        \* argument: TRUE when a VcfReader is supplied, FALSE for None
  histogram_bins,    \* argument: number of histogram bins
  pc,                \* position inside variants_to_stats_json
  single_var_stats,  \* local of variants_to_stats_json (line 248)
  stats_json,        \* local (lines 249-252)
  summary_json,      \* local (lines 254-256)
  histograms,        \* local (lines 258-259)
  histograms_json,   \* local (line 260)
  result,            \* what the call gave back: the tuple, or the error raised
  stats,             \* argument of write: the text to write
  outfile,           \* argument of write: the destination path
  wpc,               \* position inside write
  writer,            \* state of the GFile handle: "none", "open", "closed"
  files,             \* the sink: path -> <<>> (no such file) or <<text>>
  oplog              \* history of the operations performed on the sink

vars == <<variants, vcf_reader, histogram_bins, pc, single_var_stats, stats_json,
          summary_json, histograms, histograms_json, result, stats, outfile, wpc,
          writer, files, oplog>>

jsonVars == <<variants, vcf_reader, histogram_bins, pc, single_var_stats,
              stats_json, summary_json, histograms, histograms_json, result>>

writeVars == <<stats, outfile, wpc, writer, files, oplog>>

-----------------------------------------------------------------------------
(* Constants of the module, lines 45-67.                                   *)

_VARIANT_STATS_COLUMNS ==
  << "reference_name", "position", "reference_bases", "alternate_bases",
     "variant_type", "is_variant", "is_transition", "is_transversion", "depth",
     "genotype_quality", "genotype", "vaf" >>

_VARIANT_SUMMARY_STATS_COLUMNS ==
  << "record_count", "variant_count", "snv_count", "insertion_count",
     "deletion_count", "mnp_count", "complex_count", "depth_mean", "depth_stdev",
     "gq_mean", "gq_stdev", "transition_count", "transversion_count" >>

BIALLELIC_SNP == "Biallelic_SNP"
BIALLELIC_INSERTION == "Biallelic_Insertion"
BIALLELIC_DELETION == "Biallelic_Deletion"
BIALLELIC_MNP == "Biallelic_MNP"
MULTIALLELIC_SNP == "Multiallelic_SNP"
MULTIALLELIC_INSERTION == "Multiallelic_Insertion"
MULTIALLELIC_DELETION == "Multiallelic_Deletion"
MULTIALLELIC_COMPLEX == "Multiallelic_Complex"
REFCALL == "RefCall"

None == << >>
Some(v) == << v >>

-----------------------------------------------------------------------------
(* Generic helpers for the Python builtins the code uses.                  *)

RECURSIVE SumSeq(_)
\* sum(xs) for a list of integers; sum([]) is 0.
SumSeq(xs) == IF Len(xs) = 0 THEN 0 ELSE SumSeq(SubSeq(xs, 1, Len(xs) - 1)) + xs[Len(xs)]

\* sum(bs) for a list of bools: the number of True entries.
CountTrue(bs) == Cardinality({i \in 1..Len(bs) : bs[i]})

RECURSIVE SortedInts(_)
InsertInt(xs, x) ==
  LET k == Cardinality({i \in 1..Len(xs) : xs[i] <= x})
  IN  SubSeq(xs, 1, k) \o <<x>> \o SubSeq(xs, k + 1, Len(xs))
\* sorted(xs) for a list of integers.
SortedInts(xs) ==
  IF Len(xs) = 0 THEN <<>>
  ELSE InsertInt(SortedInts(SubSeq(xs, 1, Len(xs) - 1)), xs[Len(xs)])

\* The characters a rendered list of integers is made of, by ascending code point.
CodePointOrder ==
  << " ", ",", "-", "0", "1", "2", "3", "4", "5", "6", "7", "8", "9", "[", "]" >>

\* The rank of each of these characters by code point.
CodePointRank ==
  [c \in {CodePointOrder[i] : i \in 1..Len(CodePointOrder)} |->
     CHOOSE i \in 1..Len(CodePointOrder) : CodePointOrder[i] = c]

CodePoint(c) == CodePointRank[c]

RECURSIVE StrNat(_)
StrNat(n) ==
  IF n < 10 THEN << CodePointOrder[n + 4] >>
  ELSE StrNat(n \div 10) \o << CodePointOrder[(n % 10) + 4] >>

\* str(n) for an integer n.
StrInt(n) == IF n < 0 THEN <<"-">> \o StrNat(0 - n) ELSE StrNat(n)

RECURSIVE JoinInts(_)
JoinInts(xs) ==
  IF Len(xs) = 0 THEN <<>>
  ELSE IF Len(xs) = 1 THEN StrInt(xs[1])
  ELSE JoinInts(SubSeq(xs, 1, Len(xs) - 1)) \o <<",", " ">> \o StrInt(xs[Len(xs)])

\* str(xs) for a list of integers, e.g. "[0, 1]".
StrList(xs) == <<"[">> \o JoinInts(xs) \o <<"]">>

RECURSIVE StrLess(_, _)
\* a < b for two Python strings: lexicographic by code point.
StrLess(a, b) ==
  IF Len(b) = 0 THEN FALSE
  ELSE IF Len(a) = 0 THEN TRUE
  ELSE IF a[1] /= b[1] THEN CodePoint(a[1]) < CodePoint(b[1])
  ELSE StrLess(Tail(a), Tail(b))

-----------------------------------------------------------------------------
(* third_party.nucleus.util: variant_utils and variantcall_utils.          *)

is_filtered(variant) ==
  /\ Len(variant.filter) > 0
  /\ \E i \in 1..Len(variant.filter) : variant.filter[i] \notin {"PASS", "."}

is_variant_call(variant) ==
  IF Len(variant.alternate_bases) = 0 THEN FALSE
  ELSE IF is_filtered(variant) THEN FALSE
  ELSE IF Len(variant.calls) = 0 THEN TRUE
  ELSE \E i \in 1..Len(variant.calls) :
         \E j \in 1..Len(variant.calls[i].genotype) : variant.calls[i].genotype[j] > 0

is_biallelic(variant) == Len(variant.alternate_bases) = 1

is_snp(variant) ==
  /\ Len(variant.reference_bases) = 1
  /\ Len(variant.alternate_bases) >= 1
  /\ \A i \in 1..Len(variant.alternate_bases) : Len(variant.alternate_bases[i]) = 1

is_insertion(ref, alt) == Len(ref) < Len(alt)

is_deletion(ref, alt) == Len(ref) > Len(alt)

\* Defined for two different single bases.
is_transition(allele1, allele2) ==
  {allele1[1], allele2[1]} \in { {"A", "G"}, {"C", "T"} }

\* only_call raises ValueError unless the variant has exactly one call.
only_call_raises(variant) == Len(variant.calls) /= 1

only_call(variant) == variant.calls[1]

\* get_format(call, name): the named FORMAT field of the call.
get_format(call, field_name) == call[field_name]

get_gq(call) == call.GQ

get_gt(call) == call.genotype

-----------------------------------------------------------------------------
(* Outcome of a call: a returned value, or an exception that propagates.   *)

Return(v) == [raised |-> FALSE, value |-> v]
Raise(e) == [raised |-> TRUE, error |-> e]

-----------------------------------------------------------------------------
(* VariantStats, lines 51 and 140-155: a namedtuple, that is a tuple whose  *)
(* positions are the columns, built from keyword arguments.                 *)

\* The position of each column in the namedtuple.
ColumnPosition ==
  [name \in {_VARIANT_STATS_COLUMNS[k] : k \in 1..Len(_VARIANT_STATS_COLUMNS)} |->
     CHOOSE k \in 1..Len(_VARIANT_STATS_COLUMNS) : _VARIANT_STATS_COLUMNS[k] = name]

ColumnIndex(name) == ColumnPosition[name]

VariantStats(kw) ==
  [k \in 1..Len(_VARIANT_STATS_COLUMNS) |-> kw[_VARIANT_STATS_COLUMNS[k]]]

\* x.name for a VariantStats x.
Field(x, name) == x[ColumnIndex(name)]

-----------------------------------------------------------------------------
(* _get_variant_type, lines 78-109.                                        *)

_get_variant_type_deletion_as_mnp(variant) ==
  IF is_variant_call(variant) THEN
    LET biallelic == is_biallelic(variant)
        snp == is_snp(variant)
        insertion == \A i \in 1..Len(variant.alternate_bases) :
                       is_insertion(variant.reference_bases, variant.alternate_bases[i])
    IN  IF biallelic THEN
          IF snp THEN BIALLELIC_SNP
          ELSE IF insertion THEN BIALLELIC_INSERTION
          ELSE BIALLELIC_MNP
        ELSE
          IF snp THEN MULTIALLELIC_SNP
          ELSE IF insertion THEN MULTIALLELIC_INSERTION
          ELSE MULTIALLELIC_COMPLEX
  ELSE REFCALL

_get_variant_type(variant) ==
  IF is_variant_call(variant) THEN
    LET biallelic == is_biallelic(variant)
        snp == is_snp(variant)
        insertion == \A i \in 1..Len(variant.alternate_bases) :
                       is_insertion(variant.reference_bases, variant.alternate_bases[i])
        deletion == \A i \in 1..Len(variant.alternate_bases) :
                      is_deletion(variant.reference_bases, variant.alternate_bases[i])
    IN  IF biallelic THEN
          IF snp THEN BIALLELIC_SNP
          ELSE IF insertion THEN BIALLELIC_INSERTION
          ELSE IF deletion THEN BIALLELIC_DELETION
          ELSE BIALLELIC_MNP
        ELSE
          IF snp THEN MULTIALLELIC_SNP
          ELSE IF insertion THEN MULTIALLELIC_INSERTION
          ELSE IF deletion THEN MULTIALLELIC_DELETION
          ELSE MULTIALLELIC_COMPLEX
  ELSE REFCALL

-----------------------------------------------------------------------------
(* _tstv, lines 112-121: the pair (is_transition, is_transversion).        *)

_tstv_any_snp(variant, vtype) ==
  IF vtype \in {BIALLELIC_SNP, MULTIALLELIC_SNP} THEN
    LET t == is_transition(variant.reference_bases, variant.alternate_bases[1])
    IN  << t, ~t >>
  ELSE << FALSE, FALSE >>

_tstv(variant, vtype) ==
  IF vtype = BIALLELIC_SNP THEN
    LET t == is_transition(variant.reference_bases, variant.alternate_bases[1])
    IN  << t, ~t >>
  ELSE << FALSE, FALSE >>

-----------------------------------------------------------------------------
(* _get_vaf, lines 124-129: the sum of the call's per-allele VAF values.   *)

_get_vaf(variant) == SumSeq(get_format(only_call(variant), "VAF"))

-----------------------------------------------------------------------------
(* get_variant_stats, lines 132-155.  Every path evaluates only_call       *)
(* (line 127 with a reader, line 150 in any case), which raises unless the *)
(* variant has exactly one call.                                           *)

get_variant_stats(variant, reader) ==
  IF only_call_raises(variant) THEN Raise("ValueError")
  ELSE
    LET vtype == _get_variant_type(variant)
        tstv == _tstv(variant, vtype)
        vaf == IF reader THEN Some(_get_vaf(variant)) ELSE None
    IN  Return(VariantStats(
          [reference_name |-> variant.reference_name,
           position |-> variant.start + 1,
           reference_bases |-> variant.reference_bases,
           alternate_bases |-> variant.alternate_bases,
           variant_type |-> vtype,
           is_transition |-> tstv[1],
           is_transversion |-> tstv[2],
           is_variant |-> is_variant_call(variant),
           depth |-> get_format(only_call(variant), "DP"),
           genotype_quality |-> get_gq(only_call(variant)),
           genotype |-> StrList(SortedInts(get_gt(only_call(variant)))),
           vaf |-> vaf]))

-----------------------------------------------------------------------------
(* single_variant_stats, lines 158-159: a list comprehension; the first    *)
(* exception ends it and no list is built.                                 *)

single_variant_stats_skip_malformed(vs, reader) ==
  LET good == SelectSeq(vs, LAMBDA v : ~ get_variant_stats(v, reader).raised)
  IN  Return([i \in 1..Len(good) |-> get_variant_stats(good[i], reader).value])

single_variant_stats_reversed(vs, reader) ==
  IF \E i \in 1..Len(vs) : get_variant_stats(vs[i], reader).raised
  THEN Raise("ValueError")
  ELSE Return([i \in 1..Len(vs) |-> get_variant_stats(vs[Len(vs) + 1 - i], reader).value])

single_variant_stats(vs, reader) ==
  IF \E i \in 1..Len(vs) : get_variant_stats(vs[i], reader).raised
  THEN Raise("ValueError")
  ELSE Return([i \in 1..Len(vs) |-> get_variant_stats(vs[i], reader).value])

-----------------------------------------------------------------------------
(* The transposition of single_stats by zip and the dict built from it with *)
(* _VARIANT_STATS_COLUMNS, lines 206-207 and 249-250.  The transposition   *)
(* of an empty list yields nothing, so its dict has no key at all.         *)

Min(a, b) == IF a <= b THEN a ELSE b

\* The transposition of xs: one tuple per position of the records, each in the order of xs.
ZipStar(xs) ==
  IF Len(xs) = 0 THEN <<>>
  ELSE [k \in 1..Len(xs[1]) |-> [i \in 1..Len(xs) |-> xs[i][k]]]

\* dict(zip(keys, values)): the pairs up to the shorter of the two.
DictZip(keys, values) ==
  [name \in {keys[k] : k \in 1..Min(Len(keys), Len(values))} |->
     values[CHOOSE k \in 1..Len(keys) : keys[k] = name]]

transposed_dict(single_stats) == DictZip(_VARIANT_STATS_COLUMNS, ZipStar(single_stats))

-----------------------------------------------------------------------------
(* summary_stats, lines 197-233.                                           *)

\* np.mean(xs) as a fraction.
Mean(xs) == [num |-> SumSeq(xs), den |-> Len(xs)]

\* np.std(xs) squared (the population variance, dividing by N) as a fraction.
StdSquared(xs) ==
  LET n == Len(xs)
      sq == [i \in 1..n |-> xs[i] * xs[i]]
  IN  [num |-> n * SumSeq(sq) - SumSeq(xs) * SumSeq(xs), den |-> n * n]

\* sum([t == a or t == b for t in types]).
CountTypes(types, labels) == Cardinality({i \in 1..Len(types) : types[i] \in labels})

VCFSummaryStats(d, n) ==
  [record_count |-> n,
   variant_count |-> CountTrue(d["is_variant"]),
   snv_count |-> CountTypes(d["variant_type"], {BIALLELIC_SNP, MULTIALLELIC_SNP}),
   insertion_count |->
     CountTypes(d["variant_type"], {BIALLELIC_INSERTION, MULTIALLELIC_INSERTION}),
   deletion_count |->
     CountTypes(d["variant_type"], {BIALLELIC_DELETION, MULTIALLELIC_DELETION}),
   mnp_count |-> CountTypes(d["variant_type"], {BIALLELIC_MNP}),
   complex_count |-> CountTypes(d["variant_type"], {MULTIALLELIC_COMPLEX}),
   depth_mean |-> Mean(d["depth"]),
   depth_stdev |-> StdSquared(d["depth"]),
   gq_mean |-> Mean(d["genotype_quality"]),
   gq_stdev |-> StdSquared(d["genotype_quality"]),
   transition_count |-> CountTrue(d["is_transition"]),
   transversion_count |-> CountTrue(d["is_transversion"])]

\* A VCFSummaryStats of zeros, which the code never builds.
ZeroSummaryStats ==
  [record_count |-> 0, variant_count |-> 0, snv_count |-> 0, insertion_count |-> 0,
   deletion_count |-> 0, mnp_count |-> 0, complex_count |-> 0,
   depth_mean |-> [num |-> 0, den |-> 1], depth_stdev |-> [num |-> 0, den |-> 1],
   gq_mean |-> [num |-> 0, den |-> 1], gq_stdev |-> [num |-> 0, den |-> 1],
   transition_count |-> 0, transversion_count |-> 0]

summary_stats_empty_is_zero(single_stats) ==
  IF Len(single_stats) = 0 THEN Return(ZeroSummaryStats)
  ELSE Return(VCFSummaryStats(transposed_dict(single_stats), Len(single_stats)))

summary_stats_counts_variants(single_stats) ==
  LET d == transposed_dict(single_stats)
  IN  IF "is_variant" \notin DOMAIN d THEN Raise("KeyError")
      ELSE Return(VCFSummaryStats(d, CountTrue(d["is_variant"])))

summary_stats_snv_biallelic_only(single_stats) ==
  LET d == transposed_dict(single_stats)
  IN  IF "is_variant" \notin DOMAIN d THEN Raise("KeyError")
      ELSE Return([VCFSummaryStats(d, Len(single_stats)) EXCEPT
                     !.snv_count = CountTypes(d["variant_type"], {BIALLELIC_SNP})])

\* transposed_dict['is_variant'] (line 211) is the first lookup; it raises
\* KeyError when the dict has no such key.
summary_stats(single_stats) ==
  LET d == transposed_dict(single_stats)
  IN  IF "is_variant" \notin DOMAIN d THEN Raise("KeyError")
      ELSE Return(VCFSummaryStats(d, Len(single_stats)))

-----------------------------------------------------------------------------
(* vaf_histograms_by_genotype, lines 162-194.                              *)

\* The range (0, 1) given to np.histogram on line 181, in hundredths.
RangeLo == 0
RangeHi == 100

Genotype(x) == Field(x, "genotype")

RECURSIVE SortedByGenotype(_)
\* Insertion after every element whose key is not larger: the sort is stable.
InsertByGenotype(xs, x) ==
  LET k == Cardinality({i \in 1..Len(xs) : ~ StrLess(Genotype(x), Genotype(xs[i]))})
  IN  SubSeq(xs, 1, k) \o <<x>> \o SubSeq(xs, k + 1, Len(xs))
\* sorted(single_stats, key=lambda x: x.genotype), line 174.
SortedByGenotype(xs) ==
  IF Len(xs) = 0 THEN <<>>
  ELSE InsertByGenotype(SortedByGenotype(SubSeq(xs, 1, Len(xs) - 1)), xs[Len(xs)])

RECURSIVE GroupByGenotype(_)
\* itertools.groupby(xs, lambda x: x.genotype), line 175: one group per run
\* of consecutive elements with the same key.
GroupByGenotype(xs) ==
  IF Len(xs) = 0 THEN <<>>
  ELSE LET rest == GroupByGenotype(SubSeq(xs, 1, Len(xs) - 1))
           x == xs[Len(xs)]
       IN  IF Len(rest) > 0 /\ rest[Len(rest)].key = Genotype(x)
           THEN [rest EXCEPT ![Len(rest)].group = @ \o <<x>>]
           ELSE rest \o << [key |-> Genotype(x), group |-> <<x>>] >>

\* The bin a value inside the range falls in; the last bin includes RangeHi.
BinIndex(v, number_of_bins) ==
  IF v = RangeHi THEN number_of_bins
  ELSE (((v - RangeLo) * number_of_bins) \div (RangeHi - RangeLo)) + 1

\* np.histogram(vafs, bins=number_of_bins, range=(0, 1)), line 181: values
\* outside the range are ignored.  The edges are exact for the bin counts
\* that divide RangeHi, which rounding to 10 places leaves as they are.
Histogram(vafs, number_of_bins) ==
  [counts |->
     [b \in 1..number_of_bins |->
        Cardinality({i \in 1..Len(vafs) :
                       /\ vafs[i] >= RangeLo
                       /\ vafs[i] <= RangeHi
                       /\ BinIndex(vafs[i], number_of_bins) = b})],
   bins |->
     [k \in 1..(number_of_bins + 1) |->
        RangeLo + (((k - 1) * (RangeHi - RangeLo)) \div number_of_bins)]]

\* Lines 180-189: the histogram of the defined VAFs of one group.
VegaFormattedHist(group, number_of_bins) ==
  LET defined == SelectSeq(group, LAMBDA x : Field(x, "vaf") /= None)
      vafs == [i \in 1..Len(defined) |-> Field(defined[i], "vaf")[1]]
      h == Histogram(vafs, number_of_bins)
  IN  [idx \in 1..number_of_bins |->
         [bin_start |-> h.bins[idx], bin_end |-> h.bins[idx + 1],
          count |-> h.counts[idx]]]

\* d[k] = v on a dict d: a new key is added last, a known key keeps its place.
DictSet(d, k, v) ==
  IF \E i \in 1..Len(d) : d[i].key = k
  THEN [i \in 1..Len(d) |-> IF d[i].key = k THEN [key |-> k, value |-> v] ELSE d[i]]
  ELSE d \o << [key |-> k, value |-> v] >>

RECURSIVE StatsByGenotype(_, _)
\* The loop of lines 178-192 over the groups.
StatsByGenotype(groups, number_of_bins) ==
  IF Len(groups) = 0 THEN <<>>
  ELSE DictSet(StatsByGenotype(SubSeq(groups, 1, Len(groups) - 1), number_of_bins),
               groups[Len(groups)].key,
               VegaFormattedHist(groups[Len(groups)].group, number_of_bins))

vaf_histograms_by_genotype_unsorted(single_stats, number_of_bins) ==
  StatsByGenotype(GroupByGenotype(single_stats), number_of_bins)

vaf_histograms_by_genotype(single_stats, number_of_bins) ==
  StatsByGenotype(GroupByGenotype(SortedByGenotype(single_stats)), number_of_bins)

-----------------------------------------------------------------------------
(* Inputs.                                                                 *)

MaxVariants == 3

\* The default of number_of_bins and histogram_bins, lines 162 and 236.
DefaultBins == 10

Call(gt, dp, gq, vaf) == [genotype |-> gt, DP |-> dp, GQ |-> gq, VAF |-> vaf]

Variant(name, start, ref, alts, filter, calls) ==
  [reference_name |-> name, start |-> start, reference_bases |-> ref,
   alternate_bases |-> alts, filter |-> filter, calls |-> calls]

SeqsUpTo(S, n) == UNION {[1..k -> S] : k \in 0..n}

SeqsOfLen(S, lens) == UNION {[1..k -> S] : k \in lens}

StdCall == Call(<<1, 0>>, 30, 40, <<50>>)

\* One site per variant type: reference bases and alternate alleles.
Sites ==
  { << <<"A">>, << >> >>,
    << <<"A">>, << <<"G">> >> >>,
    << <<"A">>, << <<"A", "C">> >> >>,
    << <<"A", "C">>, << <<"A">> >> >>,
    << <<"A", "C">>, << <<"G", "T">> >> >>,
    << <<"A">>, << <<"G">>, <<"T">> >> >>,
    << <<"A">>, << <<"A", "C">>, <<"A", "C", "G">> >> >>,
    << <<"A", "C", "G">>, << <<"A">>, <<"A", "C">> >> >>,
    << <<"A">>, << <<"G">>, <<"A", "C">> >> >> }

\* The call lists of one site: malformed ones (no call, two calls), a
\* homozygous-reference call without VAF values, VAF sums of exactly 1.0
\* and of more than 1.0.
CallLists ==
  { << >>,
    << StdCall, StdCall >>,
    << Call(<<0, 0>>, 10, 20, << >>) >>,
    << Call(<<1, 1>>, 30, 40, <<100>>) >>,
    << Call(<<2, 1>>, 30, 40, <<34, 67>>) >> }

\* The records of the sequences: every site with the standard call, and one
\* multiallelic site with every call list, and one filtered record.
Variants ==
  {Variant("chr1", 0, s[1], s[2], << >>, << StdCall >>) : s \in Sites}
  \cup {Variant("chr2", 41, <<"A">>, << <<"G">>, <<"T">> >>, <<"PASS">>, cl) :
          cl \in CallLists}
  \cup {Variant("chr2", 7, <<"A">>, << <<"G">> >>, <<"RefCall">>, << StdCall >>)}

\* The records checked one at a time: the product of the fields.
RecordRefs == { <<"A">>, <<"A", "C">> }
RecordAlleles == { <<"G">>, <<"T">>, <<"G", "T">>, <<"A", "C", "G">> }
RecordFilters == { << >>, <<"PASS">>, <<"RefCall">> }
RecordCalls ==
  {Call(gt, 30, 40, vaf) :
     gt \in { <<0, 0>>, <<1, 0>>, <<-1, -1>>, <<1, 2>> },
     vaf \in { <<50>>, <<34, 67>> }}
Records ==
  {Variant("chr1", 0, ref, alts, filter, calls) :
     ref \in RecordRefs,
     alts \in SeqsOfLen(RecordAlleles, {0, 1, 2}),
     filter \in RecordFilters,
     calls \in SeqsOfLen(RecordCalls, {0, 1, 2})}

\* The arguments of write.
Blobs == { "", "{}", "{\"record_count\":2}", "{\"[0, 1]\":[]}" }
Paths == { "/out/stats.json", "/out/summary.json" }

-----------------------------------------------------------------------------
(* variants_to_stats_json, lines 236-262.                                  *)

NotRun == [raised |-> FALSE]

WriteIdle ==
  /\ stats = ""
  /\ outfile = ""
  /\ wpc = "idle"
  /\ writer = "none"
  /\ files = << >>
  /\ oplog = << >>

JsonStart ==
  /\ pc = "single_variant_stats"
  /\ single_var_stats = << >>
  /\ stats_json = << >>
  /\ summary_json = << >>
  /\ histograms = << >>
  /\ histograms_json = << >>
  /\ result = NotRun

Init ==
  /\ variants \in SeqsUpTo(Variants, MaxVariants)
  /\ vcf_reader \in BOOLEAN
  /\ histogram_bins = DefaultBins
  /\ JsonStart
  /\ WriteIdle

InitRecord ==
  /\ variants \in {<<v>> : v \in Records}
  /\ vcf_reader \in BOOLEAN
  /\ histogram_bins \in {2, DefaultBins}
  /\ JsonStart
  /\ WriteIdle

\* Line 248.
SingleVariantStats ==
  /\ pc = "single_variant_stats"
  /\ LET r == single_variant_stats(variants, vcf_reader)
     IN  IF r.raised
         THEN /\ pc' = "raised"
              /\ result' = r
              /\ UNCHANGED single_var_stats
         ELSE /\ pc' = "stats_json"
              /\ single_var_stats' = r.value
              /\ UNCHANGED result
  /\ UNCHANGED <<variants, vcf_reader, histogram_bins, stats_json, summary_json,
                 histograms, histograms_json>>
  /\ UNCHANGED writeVars

\* Lines 249-252.
StatsJson ==
  /\ pc = "stats_json"
  /\ stats_json' = transposed_dict(single_var_stats)
  /\ pc' = "summary_stats"
  /\ UNCHANGED <<variants, vcf_reader, histogram_bins, single_var_stats,
                 summary_json, histograms, histograms_json, result>>
  /\ UNCHANGED writeVars

\* Lines 254-256.
SummaryStats ==
  /\ pc = "summary_stats"
  /\ LET r == summary_stats(single_var_stats)
     IN  IF r.raised
         THEN /\ pc' = "raised"
              /\ result' = r
              /\ UNCHANGED summary_json
         ELSE /\ pc' = "vaf_histograms"
              /\ summary_json' = r.value
              /\ UNCHANGED result
  /\ UNCHANGED <<variants, vcf_reader, histogram_bins, single_var_stats,
                 stats_json, histograms, histograms_json>>
  /\ UNCHANGED writeVars

\* Lines 258-259.
VafHistograms ==
  /\ pc = "vaf_histograms"
  /\ histograms' = vaf_histograms_by_genotype(single_var_stats, histogram_bins)
  /\ pc' = "histograms_json"
  /\ UNCHANGED <<variants, vcf_reader, histogram_bins, single_var_stats,
                 stats_json, summary_json, histograms_json, result>>
  /\ UNCHANGED writeVars

\* Line 260.  The counts are numpy integers, which json.dumps encodes only
\* where they are instances of the interpreter's int; elsewhere it raises
\* TypeError.  Which of the two happens is a property of the interpreter.
HistogramsJson ==
  /\ pc = "histograms_json"
  /\ \E encodable \in BOOLEAN :
       IF encodable
       THEN /\ histograms_json' = histograms
            /\ pc' = "return"
            /\ UNCHANGED result
       ELSE /\ pc' = "raised"
            /\ result' = Raise("TypeError")
            /\ UNCHANGED histograms_json
  /\ UNCHANGED <<variants, vcf_reader, histogram_bins, single_var_stats,
                 stats_json, summary_json, histograms>>
  /\ UNCHANGED writeVars

\* Line 262.
ReturnReports ==
  /\ pc = "return"
  /\ result' = Return(<<stats_json, summary_json, histograms_json>>)
  /\ pc' = "returned"
  /\ UNCHANGED <<variants, vcf_reader, histogram_bins, single_var_stats,
                 stats_json, summary_json, histograms, histograms_json>>
  /\ UNCHANGED writeVars

Next ==
  \/ SingleVariantStats
  \/ StatsJson
  \/ SummaryStats
  \/ VafHistograms
  \/ HistogramsJson
  \/ ReturnReports

Spec == Init /\ [][Next]_vars

SpecRecord == InitRecord /\ [][Next]_vars

-----------------------------------------------------------------------------
(* write, lines 265-269:                                                   *)
(*   with tf.io.gfile.GFile(outfile, 'w') as writer: writer.write(stats)   *)
(* The sink can refuse the open and the write; the outcome of each is the  *)
(* environment's choice.                                                   *)

JsonIdle ==
  /\ variants = << >>
  /\ vcf_reader = FALSE
  /\ histogram_bins = DefaultBins
  /\ pc = "idle"
  /\ single_var_stats = << >>
  /\ stats_json = << >>
  /\ summary_json = << >>
  /\ histograms = << >>
  /\ histograms_json = << >>
  /\ result = NotRun

InitWrite ==
  /\ stats \in Blobs
  /\ outfile \in Paths
  /\ files \in [Paths -> {None, Some("old")}]
  /\ wpc = "with"
  /\ writer = "none"
  /\ oplog = << >>
  /\ JsonIdle

Op(name, ok) == [op |-> name, ok |-> ok]

after_body_without_with(ok) == IF ok THEN "exit" ELSE "raised"

\* Where control goes when the body of the with statement ends: the exit of
\* the context manager runs whether the body returned or raised.
after_body(ok) == IF ok THEN "exit" ELSE "exit_raising"

\* Line 268: the file is opened for writing, which empties or creates it.
Open ==
  /\ wpc = "with"
  /\ \E ok \in BOOLEAN :
       /\ oplog' = Append(oplog, Op("open", ok))
       /\ IF ok
          THEN /\ writer' = "open"
               /\ files' = [files EXCEPT ![outfile] = Some("")]
               /\ wpc' = "body"
          ELSE /\ wpc' = "raised"
               /\ UNCHANGED <<writer, files>>
  /\ UNCHANGED <<stats, outfile>>
  /\ UNCHANGED jsonVars

\* Line 269: one write of the whole text.
Write ==
  /\ wpc = "body"
  /\ \E ok \in BOOLEAN :
       /\ oplog' = Append(oplog, Op("write", ok))
       /\ files' = IF ok THEN [files EXCEPT ![outfile] = Some(@[1] \o stats)]
                         ELSE files
       /\ wpc' = after_body(ok)
  /\ UNCHANGED <<stats, outfile, writer>>
  /\ UNCHANGED jsonVars

\* The exit of the with statement closes the file; an exception of the body
\* goes on to the caller after the close.
Close ==
  /\ wpc \in {"exit", "exit_raising"}
  /\ writer' = "closed"
  /\ oplog' = Append(oplog, Op("close", TRUE))
  /\ wpc' = IF wpc = "exit" THEN "done" ELSE "raised"
  /\ UNCHANGED <<stats, outfile, files>>
  /\ UNCHANGED jsonVars

NextWrite ==
  \/ Open
  \/ Write
  \/ Close

\* The function runs to its end: a step that can be taken is taken.
SpecWrite == InitWrite /\ [][NextWrite]_vars /\ WF_vars(NextWrite)

-----------------------------------------------------------------------------
(* Properties.                                                             *)

NineLabels ==
  { BIALLELIC_SNP, BIALLELIC_INSERTION, BIALLELIC_DELETION, BIALLELIC_MNP,
    MULTIALLELIC_SNP, MULTIALLELIC_INSERTION, MULTIALLELIC_DELETION,
    MULTIALLELIC_COMPLEX, REFCALL }

\* single_variant_stats has returned its list (line 248 is behind).
StatsBuilt ==
  \/ pc \in {"stats_json", "summary_stats", "vaf_histograms", "histograms_json",
             "return", "returned"}
  \/ (pc = "raised" /\ result.error \in {"KeyError", "TypeError"})

\* summary_stats has returned (line 254 is behind).
SummaryBuilt ==
  \/ pc \in {"vaf_histograms", "histograms_json", "return", "returned"}
  \/ (pc = "raised" /\ result.error = "TypeError")

\* vaf_histograms_by_genotype has returned (line 258 is behind).
HistogramsBuilt ==
  \/ pc \in {"histograms_json", "return", "returned"}
  \/ (pc = "raised" /\ result.error = "TypeError")

AllInsertions(v) ==
  \A i \in 1..Len(v.alternate_bases) : Len(v.alternate_bases[i]) > Len(v.reference_bases)

AllDeletions(v) ==
  \A i \in 1..Len(v.alternate_bases) : Len(v.alternate_bases[i]) < Len(v.reference_bases)

\* C1: the type of every record is one of the nine labels, RefCall exactly
\* when the record is not a variant call, and otherwise the first of SNP,
\* Insertion, Deletion that applies, else MNP (one alternate) or Complex
\* (several alternates).
C1_TypePrecedence ==
  StatsBuilt =>
    \A i \in 1..Len(single_var_stats) :
      LET v == variants[i]
          t == Field(single_var_stats[i], "variant_type")
          one == Len(v.alternate_bases) = 1
          snp == is_snp(v)
          ins == AllInsertions(v)
          del == AllDeletions(v)
      IN  /\ t \in NineLabels
          /\ (t = REFCALL) <=> ~ is_variant_call(v)
          /\ is_variant_call(v) =>
               /\ (one /\ snp) => t = BIALLELIC_SNP
               /\ (one /\ ~ snp /\ ins) => t = BIALLELIC_INSERTION
               /\ (one /\ ~ snp /\ ~ ins /\ del) => t = BIALLELIC_DELETION
               /\ (one /\ ~ snp /\ ~ ins /\ ~ del) => t = BIALLELIC_MNP
               /\ (~ one /\ snp) => t = MULTIALLELIC_SNP
               /\ (~ one /\ ~ snp /\ ins) => t = MULTIALLELIC_INSERTION
               /\ (~ one /\ ~ snp /\ ~ ins /\ del) => t = MULTIALLELIC_DELETION
               /\ (~ one /\ ~ snp /\ ~ ins /\ ~ del) => t = MULTIALLELIC_COMPLEX

\* A record with two alternates, both shorter than the reference, was
\* classified after the SNP and the insertion tests failed.
C1_Witness ==
  /\ StatsBuilt
  /\ Len(single_var_stats) = 1
  /\ Len(variants[1].alternate_bases) = 2
  /\ AllDeletions(variants[1])
  /\ Field(single_var_stats[1], "variant_type") = MULTIALLELIC_DELETION

\* C2: in every VariantStats is_transition and is_transversion are not both
\* true, and both are false unless variant_type is Biallelic_SNP.
C2_TsTvOnlyBiallelicSnp ==
  StatsBuilt =>
    \A i \in 1..Len(single_var_stats) :
      LET x == single_var_stats[i]
      IN  /\ ~ (Field(x, "is_transition") /\ Field(x, "is_transversion"))
          /\ Field(x, "variant_type") /= BIALLELIC_SNP =>
               (~ Field(x, "is_transition") /\ ~ Field(x, "is_transversion"))

\* A multiallelic SNP whose first alternate is a substitution of the
\* reference base got both flags false.
C2_Witness ==
  /\ StatsBuilt
  /\ Len(single_var_stats) = 1
  /\ Field(single_var_stats[1], "variant_type") = MULTIALLELIC_SNP
  /\ variants[1].alternate_bases[1] = <<"T">>
  /\ ~ Field(single_var_stats[1], "is_transition")
  /\ ~ Field(single_var_stats[1], "is_transversion")

RefCallCount(xs) ==
  Cardinality({i \in 1..Len(xs) : Field(xs[i], "variant_type") = REFCALL})

\* C3: the summary of a non-empty list has record_count equal to the length
\* of the list, and variant_count plus the number of RefCall records equal
\* to record_count; is_variant is false exactly for the RefCall records.
C3_RecordAndVariantCount ==
  SummaryBuilt =>
    /\ Len(single_var_stats) > 0
    /\ summary_json.record_count = Len(single_var_stats)
    /\ summary_json.variant_count + RefCallCount(single_var_stats)
         = summary_json.record_count
    /\ \A i \in 1..Len(single_var_stats) :
         Field(single_var_stats[i], "is_variant")
           <=> Field(single_var_stats[i], "variant_type") /= REFCALL

\* A summary of three records, one of them a RefCall.
C3_Witness ==
  /\ SummaryBuilt
  /\ summary_json.record_count = 3
  /\ summary_json.variant_count = 2
  /\ RefCallCount(single_var_stats) = 1

\* C4: in the summary of a non-empty list the five type counters add up to
\* variant_count.
C4_TypeCountersPartition ==
  SummaryBuilt =>
    summary_json.snv_count + summary_json.insertion_count
      + summary_json.deletion_count + summary_json.mnp_count
      + summary_json.complex_count = summary_json.variant_count

\* A summary with a multiallelic SNP, a biallelic MNP and a complex record.
C4_Witness ==
  /\ SummaryBuilt
  /\ summary_json.variant_count = 3
  /\ summary_json.snv_count = 1
  /\ summary_json.mnp_count = 1
  /\ summary_json.complex_count = 1
  /\ \E i \in 1..3 : Field(single_var_stats[i], "variant_type") = MULTIALLELIC_SNP


CountSum(hist) == SumSeq([b \in 1..Len(hist) |-> hist[b].count])

DefinedVafs(xs, genotype) ==
  Cardinality({i \in 1..Len(xs) :
                 Genotype(xs[i]) = genotype /\ Field(xs[i], "vaf") /= None})

\* C5: for every genotype group of the histograms the counts of all bins add
\* up to the number of records of the group whose vaf is present.
C5_CountsCoverDefinedVafs ==
  HistogramsBuilt =>
    \A g \in 1..Len(histograms) :
      CountSum(histograms[g].value)
        = DefinedVafs(single_var_stats, histograms[g].key)

HistogramKeys == [g \in 1..Len(histograms) |-> histograms[g].key]

\* C6: the keys of the histograms are the distinct genotype strings of the
\* stats, each once, in ascending lexicographic order, whatever the input
\* order and whether or not the records of a genotype have a vaf.
C6_KeysDistinctAscending ==
  HistogramsBuilt =>
    /\ {HistogramKeys[g] : g \in 1..Len(HistogramKeys)}
         = {Genotype(single_var_stats[i]) : i \in 1..Len(single_var_stats)}
    /\ \A g, h \in 1..Len(HistogramKeys) :
         g < h => StrLess(HistogramKeys[g], HistogramKeys[h])

\* Without a reader no record has a vaf; the input has a genotype before a
\* smaller one and a genotype that occurs twice.
C6_Witness ==
  /\ HistogramsBuilt
  /\ ~ vcf_reader
  /\ Len(single_var_stats) = 3
  /\ Len(HistogramKeys) = 2
  /\ StrLess(Genotype(single_var_stats[2]), Genotype(single_var_stats[1]))
  /\ Genotype(single_var_stats[3]) = Genotype(single_var_stats[1])

\* C7: single_variant_stats returns one VariantStats per input record, the
\* i-th built from the i-th record, and every column of the stats report has
\* that length and order.
C7_OneToOneInOrder ==
  /\ StatsBuilt =>
       /\ Len(single_var_stats) = Len(variants)
       /\ \A i \in 1..Len(variants) :
            /\ Field(single_var_stats[i], "position") = variants[i].start + 1
            /\ Field(single_var_stats[i], "reference_name") = variants[i].reference_name
            /\ Field(single_var_stats[i], "reference_bases") = variants[i].reference_bases
            /\ Field(single_var_stats[i], "alternate_bases") = variants[i].alternate_bases
  /\ (StatsBuilt /\ pc /= "stats_json" /\ Len(variants) > 0) =>
       /\ DOMAIN stats_json
            = {_VARIANT_STATS_COLUMNS[k] : k \in 1..Len(_VARIANT_STATS_COLUMNS)}
       /\ \A c \in DOMAIN stats_json :
            /\ Len(stats_json[c]) = Len(variants)
            /\ \A i \in 1..Len(variants) :
                 stats_json[c][i] = Field(single_var_stats[i], c)
       /\ \A i \in 1..Len(variants) :
            /\ stats_json["position"][i] = variants[i].start + 1
            /\ stats_json["reference_name"][i] = variants[i].reference_name
            /\ stats_json["reference_bases"][i] = variants[i].reference_bases

\* The stats report of three records at three different positions was built.
C7_Witness ==
  /\ pc = "summary_stats"
  /\ Len(variants) = 3
  /\ variants[1].start > variants[2].start
  /\ variants[3].start > variants[1].start
  /\ stats_json["position"] = <<variants[1].start + 1, variants[2].start + 1,
                                variants[3].start + 1>>

\* C8: with an empty input summary_stats raises, the error leaves
\* variants_to_stats_json, and no report is returned.
C8_EmptyInputRaises ==
  Len(variants) = 0 =>
    /\ pc \in {"single_variant_stats", "stats_json", "summary_stats", "raised"}
    /\ pc = "raised" => (result.raised /\ result.error = "KeyError")
    /\ pc /= "raised" => result = NotRun
    /\ summary_json = << >>
    /\ histograms = << >>
    /\ histograms_json = << >>

\* The empty input went through single_variant_stats and failed in
\* summary_stats.
C8_Witness ==
  /\ Len(variants) = 0
  /\ pc = "raised"
  /\ result.error = "KeyError"

Malformed(v) == Len(v.calls) /= 1

\* C9: when a record of the input has no call or several calls,
\* single_variant_stats raises and gives no list, so nothing is computed
\* from the other records.
C9_MalformedRecordRaises ==
  (\E i \in 1..Len(variants) : Malformed(variants[i])) =>
    /\ pc \in {"single_variant_stats", "raised"}
    /\ pc = "raised" => (result.raised /\ result.error = "ValueError")
    /\ pc /= "raised" => result = NotRun
    /\ single_var_stats = << >>
    /\ stats_json = << >>
    /\ summary_json = << >>
    /\ histograms = << >>
    /\ histograms_json = << >>

\* A record without a call between two records with one call each.
C9_Witness ==
  /\ pc = "raised"
  /\ Len(variants) = 3
  /\ ~ Malformed(variants[1])
  /\ Len(variants[2].calls) = 0
  /\ ~ Malformed(variants[3])
  /\ result.error = "ValueError"

OpNames == [i \in 1..Len(oplog) |-> oplog[i].op]

\* The operations on the sink so far: an open first, a write only after a
\* successful open, a close only after the write, nothing after the close.
LogShape ==
  /\ OpNames \in { << >>, <<"open">>, <<"open", "write">>, <<"open", "write", "close">> }
  /\ Len(oplog) >= 2 => oplog[1].ok
  /\ (writer = "open") <=> (Len(oplog) \in {1, 2} /\ oplog[1].ok)
  /\ (writer = "closed") <=> (Len(oplog) = 3)
  /\ wpc \in {"done", "raised"} =>
       /\ Len(oplog) >= 1
       /\ oplog[1].ok => Len(oplog) = 3
  /\ wpc = "done" => files[outfile] = Some(stats)

\* C10: write opens the sink once, then writes at most once, then closes;
\* an opened sink is closed in the end, also when the write fails, and there
\* is no write before the open or after the close.
C10_OpenWriteClose == [] LogShape /\ ((writer = "open") ~> (writer = "closed"))

\* The open succeeded, the write failed, and the sink was closed before the
\* error reached the caller.
C10_Witness ==
  /\ wpc = "raised"
  /\ Len(oplog) = 3
  /\ ~ oplog[2].ok
  /\ writer = "closed"

=============================================================================
